---- MODULE Spec2Model ----
(***************************************************************************)
(* Fortest: the test-orchestration core (Fixture, Assert, Test,            *)
(* ParameterizedTest, TestSuite, TestSession) as a state machine.          *)
(*                                                                         *)
(* The registration calls are atomic actions.  TestSession::run is a       *)
(* sequence of steps, one per call into user code (a fixture's setup or    *)
(* teardown closure, a test body) together with the framework code that    *)
(* surrounds it; pc is the position of the run, cur the suite, test and    *)
(* parameter position it is at.  A call into user code may return or       *)
(* throw; what it does is an input chosen with \E.                         *)
(***************************************************************************)
EXTENDS Integers, Sequences, FiniteSets, TLC

VARIABLES
    m_suites,           \* TestSession::m_suites: suite name -> TestSuite
    m_session_fixture,  \* TestSession::m_session_fixture
    m_num_passed,       \* Assert::m_num_passed
    m_num_failed,       \* Assert::m_num_failed
    pc,                 \* position of TestSession::run ("idle": no run)
    cur,                \* the suite, test and parameter position of the run
    exc,                \* the exception in flight inside a catch block
    result,             \* how the last API call ended
    log,                \* calls into fixtures and bodies made by the last run
    lastBody,           \* what the last body invocation did
    hist,               \* registration history (which tests a fixture found)
    nRegs,              \* successful registration calls so far
    nRuns,              \* runs started so far
    nAsserts            \* calls of Assert primitives since the last reset

vars == <<m_suites, m_session_fixture, m_num_passed, m_num_failed, pc, cur,
          exc, result, log, lastBody, hist, nRegs, nRuns, nAsserts>>

(***************************************************************************)
(* Bounds of the model.                                                    *)
(***************************************************************************)
MaxRegs == 5
MaxRuns == 1
MaxAsserts == 14
MaxCalls == 2

(***************************************************************************)
(* Names.  A std::string is a sequence of character codes; std::map keeps  *)
(* its keys ordered by operator< of std::string, the lexicographic order.  *)
(***************************************************************************)
SuiteNames == {<<2>>, <<1, 2>>}
TestNames == {<<2>>, <<1, 2>>}
ParamTestNames == {<<1, 1>>}
ParamLists == {<<1, 0, 1>>}

Min(a, b) == IF a <= b THEN a ELSE b

\* std::string operator<: the first differing character decides, a proper
\* prefix is smaller.
StrLess_ByLength(a, b) ==
    \/ Len(a) < Len(b)
    \/ /\ Len(a) = Len(b)
       /\ \E i \in 1..Len(a) :
            /\ a[i] < b[i]
            /\ \A j \in 1..(i - 1) : a[j] = b[j]

StrLess(a, b) ==
    \/ \E i \in 1..Min(Len(a), Len(b)) :
            /\ a[i] < b[i]
            /\ \A j \in 1..(i - 1) : a[j] = b[j]
    \/ /\ Len(a) < Len(b)
       /\ \A j \in 1..Len(a) : a[j] = b[j]

\* begin() of a std::map with the keys `keys`
FirstKey(keys) == CHOOSE k \in keys : \A o \in keys \ {k} : StrLess(k, o)

\* the keys an iterator at k still has to visit
KeysAfter(keys, k) == {o \in keys : StrLess(k, o)}

(***************************************************************************)
(* Fixture<void>: setup and teardown closures (0: an empty std::function), *)
(* the argument pointer (0: nullptr) and the scope.  A null shared_ptr is  *)
(* NullFixture.  Fixtures are immutable, so a copy is the same value.      *)
(***************************************************************************)
Fixture(setup, teardown, args, scope) ==
    [setup |-> setup, teardown |-> teardown, args |-> args, scope |-> scope]

NullFixture == Fixture(0, 0, 0, "Null")

IsSet(f) == f.scope # "Null"

get_args(f) == IF IsSet(f) THEN f.args ELSE 0

\* the fixtures a registrar passes in; the second suite-scope one has no
\* setup closure
TestFixtures == {Fixture(1, 1, 1, "Test")}
SuiteFixtures == {Fixture(3, 3, 3, "Suite"), Fixture(0, 4, 4, "Suite")}
SessionFixtures == {Fixture(5, 5, 5, "Session")}
Fixtures == TestFixtures \cup SuiteFixtures \cup SessionFixtures

(***************************************************************************)
(* Test and ParameterizedTest                                              *)
(***************************************************************************)
NewTest ==
    [m_test_fixture |-> NullFixture, m_suite_fixture |-> NullFixture,
     m_session_fixture |-> NullFixture, m_status |-> "NONE"]

NewParameterizedTest(params) ==
    [m_test_fixture |-> NullFixture, m_suite_fixture |-> NullFixture,
     m_session_fixture |-> NullFixture, m_parameters |-> params,
     m_status_map |-> <<>>]

\* a bug: the suite-scope fixture lands in the test-scope slot too
Test_add_fixture_WrongSlot(t, f) ==
    CASE f.scope = "Session" -> [t EXCEPT !.m_session_fixture = f]
      [] f.scope = "Suite" -> [t EXCEPT !.m_test_fixture = f]
      [] f.scope = "Test" -> [t EXCEPT !.m_test_fixture = f]
      [] OTHER -> t

\* Test::add_fixture and ParameterizedTest::add_fixture: the slot of the
\* fixture's scope is overwritten
Test_add_fixture(t, f) ==
    CASE f.scope = "Session" -> [t EXCEPT !.m_session_fixture = f]
      [] f.scope = "Suite" -> [t EXCEPT !.m_suite_fixture = f]
      [] f.scope = "Test" -> [t EXCEPT !.m_test_fixture = f]
      [] OTHER -> t

\* ParameterizedTest::get_status
PT_get_status(pt, idx) ==
    IF idx \in DOMAIN pt.m_status_map THEN pt.m_status_map[idx] ELSE "NONE"

(***************************************************************************)
(* TestSuite                                                               *)
(***************************************************************************)
NewSuite ==
    [m_tests |-> <<>>, m_param_tests |-> <<>>,
     m_test_fixture |-> NullFixture, m_suite_fixture |-> NullFixture,
     m_session_fixture |-> NullFixture, m_statuses |-> <<>>]

\* a bug: the fixture is stored but not handed to the tests already there
TestSuite_add_fixture_NoFanOut(s, f) ==
    CASE f.scope = "Session" /\ ~IsSet(s.m_session_fixture) ->
            [s EXCEPT !.m_session_fixture = f]
      [] f.scope = "Suite" /\ ~IsSet(s.m_suite_fixture) ->
            [s EXCEPT !.m_suite_fixture = f]
      [] f.scope = "Test" /\ ~IsSet(s.m_test_fixture) ->
            [s EXCEPT !.m_test_fixture = f]
      [] OTHER -> s

\* a bug: a later fixture of a scope replaces the suite's own slot
TestSuite_add_fixture_LastWins(s, f) ==
    LET own ==
            CASE f.scope = "Session" -> [s EXCEPT !.m_session_fixture = f]
              [] f.scope = "Suite" -> [s EXCEPT !.m_suite_fixture = f]
              [] f.scope = "Test" -> [s EXCEPT !.m_test_fixture = f]
              [] OTHER -> s
    IN  [own EXCEPT
            !.m_tests =
                [n \in DOMAIN s.m_tests |-> Test_add_fixture(s.m_tests[n], f)],
            !.m_param_tests =
                [n \in DOMAIN s.m_param_tests |->
                    Test_add_fixture(s.m_param_tests[n], f)]]

\* TestSuite::add_fixture: the suite's own slot keeps the first fixture of a
\* scope; every test and parameterized test gets a copy
TestSuite_add_fixture(s, f) ==
    LET own ==
            CASE f.scope = "Session" /\ ~IsSet(s.m_session_fixture) ->
                    [s EXCEPT !.m_session_fixture = f]
              [] f.scope = "Suite" /\ ~IsSet(s.m_suite_fixture) ->
                    [s EXCEPT !.m_suite_fixture = f]
              [] f.scope = "Test" /\ ~IsSet(s.m_test_fixture) ->
                    [s EXCEPT !.m_test_fixture = f]
              [] OTHER -> s
    IN  [own EXCEPT
            !.m_tests =
                [n \in DOMAIN s.m_tests |-> Test_add_fixture(s.m_tests[n], f)],
            !.m_param_tests =
                [n \in DOMAIN s.m_param_tests |->
                    Test_add_fixture(s.m_param_tests[n], f)]]

\* the fixtures of the suite's slots attached to a new test
AttachSuiteFixtures(s, t) ==
    LET t1 == IF IsSet(s.m_test_fixture)
              THEN Test_add_fixture(t, s.m_test_fixture) ELSE t
        t2 == IF IsSet(s.m_suite_fixture)
              THEN Test_add_fixture(t1, s.m_suite_fixture) ELSE t1
    IN  IF IsSet(s.m_session_fixture)
        THEN Test_add_fixture(t2, s.m_session_fixture) ELSE t2

\* TestSuite::add_test: m_statuses[test_name] is assigned; emplace keeps an
\* element that is already stored under the name
TestSuite_add_test(s, name) ==
    LET test == AttachSuiteFixtures(s, NewTest)
    IN  [s EXCEPT
            !.m_statuses = (name :> test.m_status) @@ s.m_statuses,
            !.m_tests = s.m_tests @@ (name :> test)]

\* TestSuite::register_parameterized_test
TestSuite_register_parameterized_test(s, name, params) ==
    LET test == AttachSuiteFixtures(s, NewParameterizedTest(params))
    IN  [s EXCEPT !.m_param_tests = s.m_param_tests @@ (name :> test)]

\* the status get_statuses gives a parameterized test
CombinedStatus(pt) ==
    LET sts == {PT_get_status(pt, pt.m_parameters[i]) :
                    i \in 1..Len(pt.m_parameters)}
    IN  IF "FAIL" \in sts THEN "FAIL"
        ELSE IF "PASS" \in sts THEN "PASS" ELSE "NONE"

\* TestSuite::get_statuses
TestSuite_get_statuses(s) ==
    [n \in DOMAIN s.m_param_tests |-> CombinedStatus(s.m_param_tests[n])]
        @@ s.m_statuses

(***************************************************************************)
(* Assert: the counters, and what a piece of user code does to them.  A    *)
(* script is the sequence of conditions user code passes to assert_true.   *)
(***************************************************************************)
\* Assert::assert_true on the counters c = <<num_passed, num_failed>>
Assert_assert_true(c, condition) ==
    IF condition THEN <<c[1] + 1, c[2]>> ELSE <<c[1], c[2] + 1>>

\* a bug: a failing assert_false is not counted
Assert_assert_false_Uncounted(c, condition) ==
    IF ~condition THEN <<c[1] + 1, c[2]>> ELSE c

\* Assert::assert_false
Assert_assert_false(c, condition) ==
    IF ~condition THEN <<c[1] + 1, c[2]>> ELSE <<c[1], c[2] + 1>>

Abs(x) == IF x < 0 THEN -x ELSE x
Max(a, b) == IF a >= b THEN a ELSE b

\* the tolerance test of assert_equal and assert_not_equal for
\* floating-point values; rel_tol is given in hundredths
NearlyEqual(expected, actual, abs_tol, rel_tol) ==
    LET diff == Abs(expected - actual)
    IN  \/ diff <= abs_tol
        \/ diff * 100 <= rel_tol * Max(Abs(expected), Abs(actual))

\* Assert::assert_equal; floating: T is a floating-point type
Assert_assert_equal(c, expected, actual, abs_tol, rel_tol, floating) ==
    LET pass == IF floating
                THEN NearlyEqual(expected, actual, abs_tol, rel_tol)
                ELSE expected = actual
    IN  IF pass THEN <<c[1] + 1, c[2]>> ELSE <<c[1], c[2] + 1>>

\* Assert::assert_not_equal
Assert_assert_not_equal(c, expected, actual, abs_tol, rel_tol, floating) ==
    LET pass == IF floating
                THEN ~NearlyEqual(expected, actual, abs_tol, rel_tol)
                ELSE expected # actual
    IN  IF pass THEN <<c[1] + 1, c[2]>> ELSE <<c[1], c[2] + 1>>

RECURSIVE RunScript(_, _)
RunScript(c, script) ==
    IF script = <<>> THEN c
    ELSE RunScript(Assert_assert_true(c, Head(script)), Tail(script))

\* a bug: the counters of the previous test are kept
Assert_reset_Keep(c) == c

\* Assert::reset
Assert_reset(c) == <<0, 0>>

\* the failed assertions of a script, counted without the Assert object
NumFalse(script) == Cardinality({i \in 1..Len(script) : ~script[i]})

\* what a call into user code does: the assertions it makes, and whether it
\* throws
Outcome(asserts, raise) == [asserts |-> asserts, raise |-> raise]

\* a body passes, fails an assertion, or throws with no assertion failed
BodyOutcomes ==
    {Outcome(<<TRUE>>, FALSE), Outcome(<<TRUE, FALSE>>, FALSE),
     Outcome(<<TRUE>>, TRUE)}

\* a setup or teardown closure returns, fails an assertion, or throws
ClosureOutcomes ==
    {Outcome(<<>>, FALSE), Outcome(<<FALSE>>, FALSE), Outcome(<<>>, TRUE)}

Quiet == Outcome(<<>>, FALSE)

(***************************************************************************)
(* The run's position and its log                                          *)
(***************************************************************************)
NoName == <<>>
NoCur == [suite |-> NoName, test |-> NoName, k |-> 0]
At(sn, tn, k) == [suite |-> sn, test |-> tn, k |-> k]

CurSuite == m_suites[cur.suite]
CurTest == CurSuite.m_tests[cur.test]
CurParamTest == CurSuite.m_param_tests[cur.test]
CurIdx == CurParamTest.m_parameters[cur.k]

FixtureEvent(ev, f) ==
    [ev |-> ev, kind |-> "fixture", scope |-> f.scope, site |-> cur, idx |-> -1,
     fn |-> IF ev = "setup" THEN f.setup ELSE f.teardown, failed |-> 0,
     args |-> <<f.args>>]

\* a body invocation: the arguments it got and the assertions it failed
BodyEvent(kind, idx, failed, test_args, suite_args, session_args) ==
    [ev |-> "body", kind |-> kind, scope |-> "Body", site |-> cur, idx |-> idx,
     fn |-> 0, failed |-> failed,
     args |-> <<test_args, suite_args, session_args>>]

\* Fixture::setup and Fixture::teardown call the closure if there is one;
\* through a null shared_ptr nothing is called
Outcomes(f, ev) ==
    IF IsSet(f) /\ (IF ev = "setup" THEN f.setup ELSE f.teardown) # 0
    THEN ClosureOutcomes ELSE {Quiet}

\* `if (fixture) fixture->setup()` (or teardown) with the outcome o
Call(f, ev, o) ==
    /\ log' = IF IsSet(f) THEN Append(log, FixtureEvent(ev, f)) ELSE log
    /\ m_num_passed' = RunScript(<<m_num_passed, m_num_failed>>, o.asserts)[1]
    /\ m_num_failed' = RunScript(<<m_num_passed, m_num_failed>>, o.asserts)[2]
    /\ nAsserts' = nAsserts + Len(o.asserts)

\* an exception leaves TestSession::run
Abort(e) ==
    /\ pc' = "idle"
    /\ cur' = NoCur
    /\ exc' = "none"
    /\ result' = e

Goto(next) ==
    /\ pc' = next[1]
    /\ cur' = next[2]
    /\ exc' = "none"
    /\ UNCHANGED result

\* TestSession::run, the loop over m_suites after the suite sn
AfterSuite(keys) ==
    IF keys = {} THEN <<"session_teardown", NoCur>>
    ELSE <<"suite_inject", At(FirstKey(keys), NoName, 0)>>

\* TestSuite::run, the loop over m_param_tests: a parameterized test with no
\* parameters returns at once
RECURSIVE StartParamTest(_, _)
StartParamTest(sn, names) ==
    IF names = {} THEN <<"suite_teardown", At(sn, NoName, 0)>>
    ELSE LET n == FirstKey(names)
         IN  IF Len(m_suites[sn].m_param_tests[n].m_parameters) = 0
             THEN StartParamTest(sn, KeysAfter(names, n))
             ELSE <<"ptest_setup", At(sn, n, 1)>>

\* TestSuite::run, the loop over m_tests
StartTest(sn, names) ==
    IF names = {} THEN StartParamTest(sn, DOMAIN m_suites[sn].m_param_tests)
    ELSE <<"test_setup", At(sn, FirstKey(names), 0)>>

(***************************************************************************)
(* Registration history                                                    *)
(***************************************************************************)
TestsOf(s) ==
    {<<"test", n>> : n \in DOMAIN s.m_tests}
        \cup {<<"param", n>> : n \in DOMAIN s.m_param_tests}

AllTests ==
    UNION {{<<sn, t>> : t \in TestsOf(m_suites[sn])} : sn \in DOMAIN m_suites}

\* before: the suites that existed when the session got its first fixture
\* last: for a Test (and a ParameterizedTest) that is given fixtures
\* directly, the last fixture of each scope that it was given
NoLast ==
    [kind \in {"test", "param"} |->
        [scope \in {"Test", "Suite", "Session"} |-> NullFixture]]

NoHist == [session |-> {}, suite |-> <<>>, before |-> {}, last |-> NoLast]

(***************************************************************************)
(* Initial state: a new TestSession and a reset Assert                     *)
(***************************************************************************)
Init ==
    /\ m_suites = <<>>
    /\ m_session_fixture = NullFixture
    /\ m_num_passed = 0
    /\ m_num_failed = 0
    /\ pc = "idle"
    /\ cur = NoCur
    /\ exc = "none"
    /\ result = "none"
    /\ log = <<>>
    /\ lastBody = [failed |-> 0, raised |-> FALSE]
    /\ hist = NoHist
    /\ nRegs = 0
    /\ nRuns = 0
    /\ nAsserts = 0

runVars == <<pc, cur, exc, m_num_passed, m_num_failed, nAsserts, lastBody,
             nRuns>>

\* a registration call that throws changes nothing
Fails(e) ==
    /\ result' = e
    /\ log' = <<>>
    /\ UNCHANGED <<m_suites, m_session_fixture, hist, nRegs, runVars>>

\* a registration call that returns
Registers ==
    /\ nRegs < MaxRegs
    /\ nRegs' = nRegs + 1
    /\ result' = "ok"
    /\ log' = <<>>
    /\ UNCHANGED runVars

(***************************************************************************)
(* TestSession: registration                                               *)
(***************************************************************************)
\* a bug: the duplicate replaces the suite before the error is raised
add_test_suite_Clobber(name) ==
    /\ pc = "idle"
    /\ IF name \in DOMAIN m_suites
       THEN /\ result' = "DuplicateName"
            /\ log' = <<>>
            /\ m_suites' = [m_suites EXCEPT ![name] = NewSuite]
            /\ UNCHANGED <<m_session_fixture, hist, nRegs, runVars>>
       ELSE /\ Registers
            /\ m_suites' =
                (name :> IF IsSet(m_session_fixture)
                         THEN TestSuite_add_fixture(NewSuite, m_session_fixture)
                         ELSE NewSuite) @@ m_suites
            /\ UNCHANGED <<m_session_fixture, hist>>

\* a bug: the new suite is not given the session fixture
add_test_suite_NoSessionFixture(name) ==
    /\ pc = "idle"
    /\ IF name \in DOMAIN m_suites
       THEN Fails("DuplicateName")
       ELSE /\ Registers
            /\ m_suites' = (name :> NewSuite) @@ m_suites
            /\ UNCHANGED <<m_session_fixture, hist>>

\* TestSession::add_test_suite
add_test_suite(name) ==
    /\ pc = "idle"
    /\ IF name \in DOMAIN m_suites
       THEN Fails("DuplicateName")
       ELSE /\ Registers
            /\ m_suites' =
                (name :> IF IsSet(m_session_fixture)
                         THEN TestSuite_add_fixture(NewSuite, m_session_fixture)
                         ELSE NewSuite) @@ m_suites
            /\ UNCHANGED <<m_session_fixture, hist>>

\* a bug: the fixture is stored before its scope is checked
add_fixture_StoresFirst(fixture) ==
    /\ pc = "idle"
    /\ IF fixture.scope # "Session"
       THEN /\ result' = "InvalidScope"
            /\ log' = <<>>
            /\ m_session_fixture' = fixture
            /\ UNCHANGED <<m_suites, hist, nRegs, runVars>>
       ELSE /\ Registers
            /\ m_session_fixture' = fixture
            /\ m_suites' = [sn \in DOMAIN m_suites |->
                                TestSuite_add_fixture(m_suites[sn], fixture)]
            /\ hist' = [hist EXCEPT
                    !.session = AllTests,
                    !.before = IF IsSet(m_session_fixture)
                               THEN @ ELSE DOMAIN m_suites]

\* TestSession::add_fixture(fixture)
add_fixture(fixture) ==
    /\ pc = "idle"
    /\ IF fixture.scope # "Session"
       THEN Fails("InvalidScope")
       ELSE /\ Registers
            /\ m_session_fixture' = fixture
            /\ m_suites' = [sn \in DOMAIN m_suites |->
                                TestSuite_add_fixture(m_suites[sn], fixture)]
            /\ hist' = [hist EXCEPT
                    !.session = AllTests,
                    !.before = IF IsSet(m_session_fixture)
                               THEN @ ELSE DOMAIN m_suites]

\* a bug: a suite is created for the unknown name
add_fixture_to_suite_Creates(suite_name, fixture) ==
    /\ pc = "idle"
    /\ IF fixture.scope # "Test" /\ fixture.scope # "Suite"
       THEN Fails("InvalidScope")
       ELSE IF suite_name \notin DOMAIN m_suites
       THEN /\ result' = "UnknownSuite"
            /\ log' = <<>>
            /\ m_suites' = (suite_name :> NewSuite) @@ m_suites
            /\ UNCHANGED <<m_session_fixture, hist, nRegs, runVars>>
       ELSE /\ Registers
            /\ m_suites' = [m_suites EXCEPT
                    ![suite_name] = TestSuite_add_fixture(@, fixture)]
            /\ UNCHANGED <<m_session_fixture, hist>>

\* TestSession::add_fixture(suite_name, fixture)
add_fixture_to_suite(suite_name, fixture) ==
    /\ pc = "idle"
    /\ IF fixture.scope # "Test" /\ fixture.scope # "Suite"
       THEN Fails("InvalidScope")
       ELSE IF suite_name \notin DOMAIN m_suites
       THEN Fails("UnknownSuite")
       ELSE /\ Registers
            /\ m_suites' = [m_suites EXCEPT
                    ![suite_name] = TestSuite_add_fixture(@, fixture)]
            /\ hist' =
                IF fixture.scope = "Suite"
                THEN [hist EXCEPT !.suite =
                        (suite_name :> [fixture |-> fixture,
                                        tests |-> TestsOf(m_suites[suite_name])])
                            @@ @]
                ELSE hist
            /\ UNCHANGED m_session_fixture

\* TestSession::add_test
add_test(suite_name, test_name) ==
    /\ pc = "idle"
    /\ IF suite_name \notin DOMAIN m_suites
       THEN Fails("UnknownSuite")
       ELSE /\ Registers
            /\ m_suites' = [m_suites EXCEPT
                    ![suite_name] = TestSuite_add_test(@, test_name)]
            /\ UNCHANGED <<m_session_fixture, hist>>

\* TestSuite::register_parameterized_test, called on the suite that
\* add_test_suite returned
register_parameterized_test(suite_name, test_name, params) ==
    /\ pc = "idle"
    /\ suite_name \in DOMAIN m_suites
    /\ Registers
    /\ m_suites' = [m_suites EXCEPT
            ![suite_name] =
                TestSuite_register_parameterized_test(@, test_name, params)]
    /\ UNCHANGED <<m_session_fixture, hist>>

\* TestSession::get_test_suite_status: a query, it returns
\* TestSuite_get_statuses of the suite
get_test_suite_status(suite_name) ==
    /\ pc = "idle"
    /\ IF suite_name \notin DOMAIN m_suites
       THEN Fails("UnknownSuite")
       ELSE /\ result' = "ok"
            /\ log' = <<>>
            /\ UNCHANGED <<m_suites, m_session_fixture, hist, nRegs, runVars>>

(***************************************************************************)
(* TestSession::run                                                        *)
(***************************************************************************)
regVars == <<m_session_fixture, hist, nRegs>>

\* a bug: the injected fixture loses the args
InjectedFixture_NullArgs == Fixture(0, 0, 0, "Session")

\* the session fixture run() injects into every suite: the session fixture's
\* args, no closures
InjectedFixture == Fixture(0, 0, get_args(m_session_fixture), "Session")

\* run() is called
RunBegin ==
    /\ pc = "idle"
    /\ nRuns < MaxRuns
    /\ nRuns' = nRuns + 1
    /\ pc' = "session_setup"
    /\ cur' = NoCur
    /\ result' = "running"
    /\ log' = <<>>
    /\ UNCHANGED <<m_suites, regVars, exc, m_num_passed, m_num_failed, nAsserts,
                   lastBody>>

\* if (m_session_fixture) m_session_fixture->setup()
SessionSetup ==
    /\ pc = "session_setup"
    /\ \E o \in Outcomes(m_session_fixture, "setup") :
        /\ Call(m_session_fixture, "setup", o)
        /\ IF o.raise THEN Abort("SetupFailure")
           ELSE Goto(AfterSuite(DOMAIN m_suites))
    /\ UNCHANGED <<m_suites, regVars, lastBody, nRuns>>

\* a bug: run() does not hand the session fixture's args to the suite
SuiteInject_Skipped ==
    /\ pc = "suite_inject"
    /\ pc' = "suite_setup"
    /\ UNCHANGED <<m_suites, regVars, cur, exc, result, log, m_num_passed,
                   m_num_failed, nAsserts, lastBody, nRuns>>

\* suite->add_fixture(Fixture(nullptr, nullptr, args, Scope::Session))
SuiteInject ==
    /\ pc = "suite_inject"
    /\ m_suites' = [m_suites EXCEPT
            ![cur.suite] = TestSuite_add_fixture(@, InjectedFixture)]
    /\ pc' = "suite_setup"
    /\ UNCHANGED <<regVars, cur, exc, result, log, m_num_passed, m_num_failed,
                   nAsserts,
                   lastBody, nRuns>>

\* TestSuite::run up to the first test: the suite fixture's setup, then the
\* results database is opened and its table created (either may throw)
SuiteSetup ==
    /\ pc = "suite_setup"
    /\ \E o \in Outcomes(CurSuite.m_suite_fixture, "setup"), db_ok \in BOOLEAN :
        /\ Call(CurSuite.m_suite_fixture, "setup", o)
        /\ IF o.raise THEN Abort("SetupFailure")
           ELSE IF ~db_ok THEN Abort("DbFailure")
           ELSE Goto(StartTest(cur.suite, DOMAIN CurSuite.m_tests))
    /\ UNCHANGED <<m_suites, regVars, lastBody, nRuns>>

\* a bug: the setup is called inside the try block
TestSetup_InsideTry ==
    /\ pc = "test_setup"
    /\ \E o \in Outcomes(CurTest.m_test_fixture, "setup") :
        /\ Call(CurTest.m_test_fixture, "setup", o)
        /\ IF o.raise
           THEN /\ pc' = "test_catch"
                /\ exc' = "SetupFailure"
                /\ UNCHANGED <<cur, result>>
           ELSE Goto(<<"test_body", cur>>)
    /\ UNCHANGED <<m_suites, regVars, lastBody, nRuns>>

\* Test::run up to the body: the fixtures' args are read and the test
\* fixture's setup called
TestSetup ==
    /\ pc = "test_setup"
    /\ \E o \in Outcomes(CurTest.m_test_fixture, "setup") :
        /\ Call(CurTest.m_test_fixture, "setup", o)
        /\ IF o.raise THEN Abort("SetupFailure")
           ELSE Goto(<<"test_body", cur>>)
    /\ UNCHANGED <<m_suites, regVars, lastBody, nRuns>>

\* Test::run: assert.reset(), the body, and on its return the status and
\* the row written to the database (the statement may fail to prepare)
TestBody ==
    /\ pc = "test_body"
    /\ \E o \in BodyOutcomes, db_ok \in BOOLEAN :
        LET c == RunScript(Assert_reset(<<m_num_passed, m_num_failed>>),
                           o.asserts)
        IN  /\ m_num_passed' = c[1]
            /\ m_num_failed' = c[2]
            /\ nAsserts' = Len(o.asserts)
            /\ lastBody' = [failed |-> NumFalse(o.asserts), raised |-> o.raise]
            /\ log' = Append(log,
                    BodyEvent("test", -1, NumFalse(o.asserts),
                              get_args(CurTest.m_test_fixture),
                              get_args(CurTest.m_suite_fixture),
                              get_args(CurTest.m_session_fixture)))
            /\ IF o.raise
               THEN /\ pc' = "test_catch"
                    /\ exc' = "BodyFailure"
                    /\ UNCHANGED m_suites
               ELSE /\ m_suites' = [m_suites EXCEPT
                        ![cur.suite].m_tests[cur.test].m_status =
                            IF c[2] = 0 THEN "PASS" ELSE "FAIL"]
                    /\ IF db_ok
                       THEN pc' = "test_teardown" /\ exc' = "none"
                       ELSE pc' = "test_catch" /\ exc' = "DbFailure"
    /\ UNCHANGED <<regVars, cur, result, nRuns>>

\* a bug: the status is computed after the teardown
TestTeardown_StatusAfter ==
    /\ pc = "test_teardown"
    /\ \E o \in Outcomes(CurTest.m_test_fixture, "teardown") :
        /\ Call(CurTest.m_test_fixture, "teardown", o)
        /\ IF o.raise
           THEN pc' = "test_catch" /\ exc' = "TeardownFailure"
           ELSE pc' = "test_done" /\ exc' = "none"
        /\ m_suites' = [m_suites EXCEPT
                ![cur.suite].m_tests[cur.test].m_status =
                    IF m_num_failed' = 0 THEN "PASS" ELSE "FAIL"]
    /\ UNCHANGED <<regVars, cur, result, lastBody, nRuns>>

\* Test::run, the end of the try block: the test fixture's teardown
TestTeardown ==
    /\ pc = "test_teardown"
    /\ \E o \in Outcomes(CurTest.m_test_fixture, "teardown") :
        /\ Call(CurTest.m_test_fixture, "teardown", o)
        /\ IF o.raise
           THEN pc' = "test_catch" /\ exc' = "TeardownFailure"
           ELSE pc' = "test_done" /\ exc' = "none"
    /\ UNCHANGED <<m_suites, regVars, cur, result, lastBody, nRuns>>

\* a bug: the handler drops the statuses the suite has recorded
TestCatch_DropsStatuses ==
    /\ pc = "test_catch"
    /\ \E o \in Outcomes(CurTest.m_test_fixture, "teardown") :
        /\ Call(CurTest.m_test_fixture, "teardown", o)
        /\ IF o.raise
           THEN /\ Abort("TeardownFailure")
                /\ UNCHANGED m_suites
           ELSE /\ Abort(exc)
                /\ m_suites' = [m_suites EXCEPT
                        ![cur.suite].m_tests[cur.test].m_status = "FAIL",
                        ![cur.suite].m_statuses =
                            [n \in DOMAIN @ |-> "NONE"]]
    /\ UNCHANGED <<regVars, lastBody, nRuns>>

\* Test::run, catch (...): the teardown, m_status = FAIL, throw;
TestCatch ==
    /\ pc = "test_catch"
    /\ \E o \in Outcomes(CurTest.m_test_fixture, "teardown") :
        /\ Call(CurTest.m_test_fixture, "teardown", o)
        /\ IF o.raise
           THEN /\ Abort("TeardownFailure")
                /\ UNCHANGED m_suites
           ELSE /\ Abort(exc)
                /\ m_suites' = [m_suites EXCEPT
                        ![cur.suite].m_tests[cur.test].m_status = "FAIL"]
    /\ UNCHANGED <<regVars, lastBody, nRuns>>

\* TestSuite::run after test.run returned: m_statuses[test_name] is set and
\* the loop goes on
TestDone ==
    /\ pc = "test_done"
    /\ m_suites' = [m_suites EXCEPT
            ![cur.suite].m_statuses =
                (cur.test :> CurTest.m_status) @@ @]
    /\ Goto(StartTest(cur.suite, KeysAfter(DOMAIN CurSuite.m_tests, cur.test)))
    /\ UNCHANGED <<regVars, log, m_num_passed, m_num_failed, nAsserts, lastBody,
                   nRuns>>

\* a bug: a failing setup is recorded as FAIL for the index
PTestSetup_RecordsFailure ==
    /\ pc = "ptest_setup"
    /\ \E o \in Outcomes(CurParamTest.m_test_fixture, "setup") :
        /\ Call(CurParamTest.m_test_fixture, "setup", o)
        /\ IF o.raise
           THEN /\ Abort("SetupFailure")
                /\ m_suites' = [m_suites EXCEPT
                        ![cur.suite].m_param_tests[cur.test].m_status_map =
                            (CurIdx :> "FAIL") @@ @]
           ELSE /\ Goto(<<"ptest_body", cur>>)
                /\ UNCHANGED m_suites
    /\ UNCHANGED <<regVars, lastBody, nRuns>>

\* ParameterizedTest::run, the start of an iteration: the test fixture's
\* setup
PTestSetup ==
    /\ pc = "ptest_setup"
    /\ \E o \in Outcomes(CurParamTest.m_test_fixture, "setup") :
        /\ Call(CurParamTest.m_test_fixture, "setup", o)
        /\ IF o.raise THEN Abort("SetupFailure")
           ELSE Goto(<<"ptest_body", cur>>)
    /\ UNCHANGED <<m_suites, regVars, lastBody, nRuns>>

\* a bug: the counters are not reset before the body of an index
PTestBody_NoReset ==
    /\ pc = "ptest_body"
    /\ \E o \in BodyOutcomes :
        LET c == RunScript(<<m_num_passed, m_num_failed>>, o.asserts)
        IN  /\ m_num_passed' = c[1]
            /\ m_num_failed' = c[2]
            /\ nAsserts' = nAsserts + Len(o.asserts)
            /\ lastBody' = [failed |-> NumFalse(o.asserts), raised |-> o.raise]
            /\ log' = Append(log,
                    BodyEvent("param", CurIdx, NumFalse(o.asserts),
                              get_args(CurParamTest.m_test_fixture),
                              get_args(CurParamTest.m_suite_fixture),
                              get_args(CurParamTest.m_session_fixture)))
            /\ IF o.raise
               THEN /\ pc' = "ptest_catch"
                    /\ exc' = "BodyFailure"
                    /\ UNCHANGED m_suites
               ELSE /\ m_suites' = [m_suites EXCEPT
                        ![cur.suite].m_param_tests[cur.test].m_status_map =
                            (CurIdx :> IF c[2] = 0 THEN "PASS" ELSE "FAIL")
                                @@ @]
                    /\ pc' = "ptest_teardown"
                    /\ exc' = "none"
    /\ UNCHANGED <<regVars, cur, result, nRuns>>

\* ParameterizedTest::run: assert.reset(), the body with the index, and on
\* its return m_status_map[idx]
PTestBody ==
    /\ pc = "ptest_body"
    /\ \E o \in BodyOutcomes :
        LET c == RunScript(Assert_reset(<<m_num_passed, m_num_failed>>),
                           o.asserts)
        IN  /\ m_num_passed' = c[1]
            /\ m_num_failed' = c[2]
            /\ nAsserts' = Len(o.asserts)
            /\ lastBody' = [failed |-> NumFalse(o.asserts), raised |-> o.raise]
            /\ log' = Append(log,
                    BodyEvent("param", CurIdx, NumFalse(o.asserts),
                              get_args(CurParamTest.m_test_fixture),
                              get_args(CurParamTest.m_suite_fixture),
                              get_args(CurParamTest.m_session_fixture)))
            /\ IF o.raise
               THEN /\ pc' = "ptest_catch"
                    /\ exc' = "BodyFailure"
                    /\ UNCHANGED m_suites
               ELSE /\ m_suites' = [m_suites EXCEPT
                        ![cur.suite].m_param_tests[cur.test].m_status_map =
                            (CurIdx :> IF c[2] = 0 THEN "PASS" ELSE "FAIL")
                                @@ @]
                    /\ pc' = "ptest_teardown"
                    /\ exc' = "none"
    /\ UNCHANGED <<regVars, cur, result, nRuns>>

\* ParameterizedTest::run, the end of the try block: the teardown, then the
\* next parameter or the return to TestSuite::run
PTestTeardown ==
    /\ pc = "ptest_teardown"
    /\ \E o \in Outcomes(CurParamTest.m_test_fixture, "teardown") :
        /\ Call(CurParamTest.m_test_fixture, "teardown", o)
        /\ IF o.raise
           THEN /\ pc' = "ptest_catch"
                /\ exc' = "TeardownFailure"
                /\ UNCHANGED <<cur, result>>
           ELSE IF cur.k < Len(CurParamTest.m_parameters)
           THEN Goto(<<"ptest_setup", At(cur.suite, cur.test, cur.k + 1)>>)
           ELSE Goto(StartParamTest(cur.suite,
                    KeysAfter(DOMAIN CurSuite.m_param_tests, cur.test)))
    /\ UNCHANGED <<m_suites, regVars, lastBody, nRuns>>

\* ParameterizedTest::run, catch (...): the teardown,
\* m_status_map[idx] = FAIL, throw;
PTestCatch ==
    /\ pc = "ptest_catch"
    /\ \E o \in Outcomes(CurParamTest.m_test_fixture, "teardown") :
        /\ Call(CurParamTest.m_test_fixture, "teardown", o)
        /\ IF o.raise
           THEN /\ Abort("TeardownFailure")
                /\ UNCHANGED m_suites
           ELSE /\ Abort(exc)
                /\ m_suites' = [m_suites EXCEPT
                        ![cur.suite].m_param_tests[cur.test].m_status_map =
                            (CurIdx :> "FAIL") @@ @]
    /\ UNCHANGED <<regVars, lastBody, nRuns>>

\* a bug: TestSuite::run returns without the suite fixture's teardown
SuiteTeardown_Skipped ==
    /\ pc = "suite_teardown"
    /\ Goto(AfterSuite(KeysAfter(DOMAIN m_suites, cur.suite)))
    /\ UNCHANGED <<m_suites, regVars, log, m_num_passed, m_num_failed, nAsserts,
                   lastBody, nRuns>>

\* TestSuite::run, the end: the suite fixture's teardown; then the next suite
SuiteTeardown ==
    /\ pc = "suite_teardown"
    /\ \E o \in Outcomes(CurSuite.m_suite_fixture, "teardown") :
        /\ Call(CurSuite.m_suite_fixture, "teardown", o)
        /\ IF o.raise THEN Abort("TeardownFailure")
           ELSE Goto(AfterSuite(KeysAfter(DOMAIN m_suites, cur.suite)))
    /\ UNCHANGED <<m_suites, regVars, lastBody, nRuns>>

\* if (m_session_fixture) m_session_fixture->teardown(); run() returns
SessionTeardown ==
    /\ pc = "session_teardown"
    /\ \E o \in Outcomes(m_session_fixture, "teardown") :
        /\ Call(m_session_fixture, "teardown", o)
        /\ Abort(IF o.raise THEN "TeardownFailure" ELSE "returned")
    /\ UNCHANGED <<m_suites, regVars, lastBody, nRuns>>

(***************************************************************************)
(* The specification                                                       *)
(***************************************************************************)
Next ==
    \/ \E name \in SuiteNames : add_test_suite(name)
    \/ \E f \in Fixtures : add_fixture(f)
    \/ \E sn \in SuiteNames, f \in Fixtures : add_fixture_to_suite(sn, f)
    \/ \E sn \in SuiteNames, tn \in TestNames : add_test(sn, tn)
    \/ \E sn \in SuiteNames, tn \in ParamTestNames, ps \in ParamLists :
            register_parameterized_test(sn, tn, ps)
    \/ \E sn \in SuiteNames : get_test_suite_status(sn)
    \/ RunBegin
    \/ SessionSetup
    \/ SuiteInject
    \/ SuiteSetup
    \/ TestSetup
    \/ TestBody
    \/ TestTeardown
    \/ TestCatch
    \/ TestDone
    \/ PTestSetup
    \/ PTestBody
    \/ PTestTeardown
    \/ PTestCatch
    \/ SuiteTeardown
    \/ SessionTeardown

Spec == Init /\ [][Next]_vars

(***************************************************************************)
(* Reading the log                                                         *)
(***************************************************************************)
RunReturned == pc = "idle" /\ result = "returned"

LogIdx == 1..Len(log)

Bodies == {i \in LogIdx : log[i].ev = "body"}

\* the calls of `ev` (setup or teardown) on fixtures of scope `scope`
FixtureCalls(ev, scope) ==
    {i \in LogIdx : log[i].ev = ev /\ log[i].scope = scope}

\* the body invocations of the test t = <<kind, name>> of the suite sn
BodiesOf(sn, t) ==
    {i \in Bodies : /\ log[i].site.suite = sn
                    /\ log[i].kind = t[1]
                    /\ log[i].site.test = t[2]}

\* the log holds a whole TestSuite::run of the suite sn that returned: its
\* last step, the suite fixture's teardown, did not throw
SuiteRunReturned(sn) ==
    \E i \in FixtureCalls("teardown", "Suite") :
        /\ log[i].site.suite = sn
        /\ ~(i = Len(log) /\ pc = "idle" /\ result = "TeardownFailure")

(***************************************************************************)
(* C1: a session fixture added when suites and tests already exist: a run  *)
(* that returns has called its setup exactly once, before every body, its  *)
(* teardown exactly once, after every body, and has run the body of every  *)
(* test the fixture found, each time with the fixture's args as            *)
(* session_args.                                                           *)
(***************************************************************************)
C1_SessionFixtureRetroactive ==
    (RunReturned /\ IsSet(m_session_fixture) /\ hist.session # {}) =>
        /\ Cardinality(FixtureCalls("setup", "Session")) = 1
        /\ Cardinality(FixtureCalls("teardown", "Session")) = 1
        /\ \A i \in FixtureCalls("setup", "Session") :
                /\ log[i].fn = m_session_fixture.setup
                /\ log[i].args = <<m_session_fixture.args>>
                /\ \A b \in Bodies : i < b
        /\ \A i \in FixtureCalls("teardown", "Session") :
                /\ log[i].fn = m_session_fixture.teardown
                /\ log[i].args = <<m_session_fixture.args>>
                /\ \A b \in Bodies : b < i
        /\ \A p \in hist.session :
                /\ BodiesOf(p[1], p[2]) # {}
                /\ \A b \in BodiesOf(p[1], p[2]) :
                        log[b].args[3] = m_session_fixture.args

\* the fixture found tests in two suites, one of them parameterized
C1_Witness ==
    /\ RunReturned
    /\ IsSet(m_session_fixture)
    /\ \E p, q \in hist.session : p[1] # q[1] /\ p[2][1] = "param"

TestFixtureAt(e) ==
    IF e.kind = "test"
    THEN m_suites[e.site.suite].m_tests[e.site.test].m_test_fixture
    ELSE m_suites[e.site.suite].m_param_tests[e.site.test].m_test_fixture

\* log[i] is the call `ev` of a test-scope fixture for the invocation `site`
IsTestFixtureCall(i, ev, site) ==
    /\ i \in LogIdx
    /\ log[i].ev = ev
    /\ log[i].scope = "Test"
    /\ log[i].site = site

\* Test::run (or the iteration of ParameterizedTest::run) that made the body
\* call log[b] is over
InvocationEnded(b) ==
    ~(/\ pc \in {"test_teardown", "test_catch", "ptest_teardown",
                 "ptest_catch"}
      /\ cur = log[b].site)

\* the body invocations of tests that have a test-scope fixture
FixturedBodies == {b \in Bodies : IsSet(TestFixtureAt(log[b]))}

(***************************************************************************)
(* C3: with a test-scope fixture attached, every body invocation has the   *)
(* fixture's setup immediately before it and the fixture's teardown        *)
(* immediately after it, once: setup, body, teardown strictly alternate.   *)
(***************************************************************************)
C3_SetupBodyTeardownAlternate ==
    /\ \A b \in FixturedBodies :
        /\ IsTestFixtureCall(b - 1, "setup", log[b].site)
        /\ InvocationEnded(b) =>
                IsTestFixtureCall(b + 1, "teardown", log[b].site)
        /\ ~IsTestFixtureCall(b + 2, "teardown", log[b].site)
    /\ \A i \in FixtureCalls("teardown", "Test") :
        i - 1 \in Bodies /\ log[i - 1].site = log[i].site

(***************************************************************************)
(* C4: with a test-scope fixture attached, an invocation that reached the  *)
(* body and is over has called the fixture's teardown exactly once,        *)
(* however it ended: by a normal return, by a failure of the body, or by a *)
(* failure of the teardown.                                                *)
(***************************************************************************)
C4_TeardownExactlyOnce ==
    \A b \in FixturedBodies :
        InvocationEnded(b) =>
            Cardinality({i \in FixtureCalls("teardown", "Test") :
                            log[i].site = log[b].site}) = 1

(***************************************************************************)
(* C5: in a run that returns, the fixture calls are nested: the session    *)
(* fixture's setup is the first call and its teardown the last; the calls  *)
(* made for one suite are consecutive, opened by the suite fixture's setup *)
(* and closed by its teardown; every body and every test-fixture call      *)
(* lies inside its suite's calls.                                          *)
(***************************************************************************)
SuiteCalls(sn) == {i \in LogIdx : log[i].site.suite = sn}

SetMin(S) == CHOOSE x \in S : \A y \in S : x <= y
SetMax(S) == CHOOSE x \in S : \A y \in S : y <= x

C5_FixturesNested ==
    RunReturned =>
        /\ IF IsSet(m_session_fixture)
           THEN /\ FixtureCalls("setup", "Session") = {1}
                /\ FixtureCalls("teardown", "Session") = {Len(log)}
                /\ Len(log) >= 2
           ELSE \A i \in LogIdx : log[i].scope # "Session"
        /\ \A i \in LogIdx :
                log[i].scope # "Session" => log[i].site.suite \in DOMAIN m_suites
        /\ \A sn \in DOMAIN m_suites :
            LET calls == SuiteCalls(sn)
                own == {i \in calls : log[i].scope = "Suite"}
            IN  /\ \A i, j \in calls : \A k \in i..j : k \in calls
                /\ IF IsSet(m_suites[sn].m_suite_fixture)
                   THEN /\ Cardinality(own) = 2
                        /\ log[SetMin(calls)].ev = "setup"
                        /\ log[SetMin(calls)].scope = "Suite"
                        /\ log[SetMax(calls)].ev = "teardown"
                        /\ log[SetMax(calls)].scope = "Suite"
                   ELSE own = {}
                /\ \A tn \in DOMAIN m_suites[sn].m_tests :
                        BodiesOf(sn, <<"test", tn>>) # {}

\* a session fixture, a suite fixture and a test fixture around a body
C5_Witness ==
    /\ RunReturned
    /\ IsSet(m_session_fixture)
    /\ \E sn \in DOMAIN m_suites :
        /\ IsSet(m_suites[sn].m_suite_fixture)
        /\ \E b \in FixturedBodies : log[b].site.suite = sn

(***************************************************************************)
(* C6: a run that returns has invoked the bodies in the order given by the *)
(* names alone: suites in ascending lexicographic order of their names; in *)
(* a suite the regular tests in ascending order of their names, then the   *)
(* parameterized tests in ascending order of their names, each over its    *)
(* parameter list in stored order; every registered test once.  So the     *)
(* sequence is the same in every run over the same registrations.          *)
(***************************************************************************)
RECURSIVE LexBefore(_, _)
LexBefore(a, b) ==
    IF b = <<>> THEN FALSE
    ELSE IF a = <<>> THEN TRUE
    ELSE IF Head(a) # Head(b) THEN Head(a) < Head(b)
    ELSE LexBefore(Tail(a), Tail(b))

RunsBefore(e, f) ==
    \/ LexBefore(e.site.suite, f.site.suite)
    \/ /\ e.site.suite = f.site.suite
       /\ \/ e.kind = "test" /\ f.kind = "param"
          \/ /\ e.kind = f.kind
             /\ \/ LexBefore(e.site.test, f.site.test)
                \/ e.site.test = f.site.test /\ e.site.k < f.site.k

C6_RunOrder ==
    RunReturned =>
        /\ \A i, j \in Bodies : i < j => RunsBefore(log[i], log[j])
        /\ \A sn \in DOMAIN m_suites :
            /\ \A tn \in DOMAIN m_suites[sn].m_tests :
                    Cardinality(BodiesOf(sn, <<"test", tn>>)) = 1
            /\ \A tn \in DOMAIN m_suites[sn].m_param_tests :
                LET ps == m_suites[sn].m_param_tests[tn].m_parameters
                IN  \A k \in 1..Len(ps) :
                        \E b \in BodiesOf(sn, <<"param", tn>>) :
                            log[b].site.k = k /\ log[b].idx = ps[k]

\* two suites, one of them with two regular tests
C6_Witness ==
    /\ RunReturned
    /\ Cardinality(DOMAIN m_suites) = 2
    /\ \E sn \in DOMAIN m_suites : Cardinality(DOMAIN m_suites[sn].m_tests) = 2
    /\ Cardinality(Bodies) >= 3

(***************************************************************************)
(* C7: a Test's status is NONE when it is constructed and changes only in  *)
(* its own run; when Test::run has returned normally the status is PASS if *)
(* the body made no failing assertion and FAIL otherwise, whatever the     *)
(* counters held before the reset.                                         *)
(***************************************************************************)
C7_StatusAfterReturn ==
    pc = "test_done" =>
        CurTest.m_status = IF lastBody.failed = 0 THEN "PASS" ELSE "FAIL"

C7_StatusStep ==
    \A sn \in DOMAIN m_suites' :
        \A tn \in DOMAIN m_suites'[sn].m_tests :
            IF sn \in DOMAIN m_suites /\ tn \in DOMAIN m_suites[sn].m_tests
            THEN m_suites'[sn].m_tests[tn].m_status
                        # m_suites[sn].m_tests[tn].m_status =>
                    /\ pc \in {"test_body", "test_catch"}
                    /\ cur.suite = sn
                    /\ cur.test = tn
            ELSE m_suites'[sn].m_tests[tn].m_status = "NONE"

C7_Status == []C7_StatusAfterReturn /\ [][C7_StatusStep]_vars

\* a test passed right after another test of its suite failed
C7_Witness ==
    /\ pc = "test_done"
    /\ CurTest.m_status = "PASS"
    /\ \E tn \in DOMAIN CurSuite.m_tests :
        /\ StrLess(tn, cur.test)
        /\ CurSuite.m_tests[tn].m_status = "FAIL"

(***************************************************************************)
(* C8: when the body of a Test has thrown, Test::run does not return       *)
(* normally; it throws the body's failure, and the status is FAIL.         *)
(***************************************************************************)
C8_BodyFailureGivesFail ==
    /\ pc = "test_done" => ~lastBody.raised
    /\ (pc = "idle" /\ lastBody.raised /\ Bodies # {}) =>
            LET e == log[SetMax(Bodies)]
            IN  e.kind = "test" =>
                    /\ result = "BodyFailure"
                    /\ m_suites[e.site.suite].m_tests[e.site.test].m_status
                            = "FAIL"

(***************************************************************************)
(* C9: add_test_suite with a registered name fails with the duplicate-name *)
(* error and changes neither the suites nor the session fixture.           *)
(***************************************************************************)
C9_DuplicateSuite ==
    [][\A name \in SuiteNames :
            (add_test_suite(name) /\ name \in DOMAIN m_suites) =>
                /\ result' = "DuplicateName"
                /\ m_suites' = m_suites
                /\ m_session_fixture' = m_session_fixture]_vars

\* the duplicate was refused while every suite had a fixture and a test
\* with a recorded status
C9_Witness ==
    /\ result = "DuplicateName"
    /\ DOMAIN m_suites # {}
    /\ \A sn \in DOMAIN m_suites :
        /\ IsSet(m_suites[sn].m_suite_fixture)
        /\ \E tn \in DOMAIN m_suites[sn].m_statuses :
                m_suites[sn].m_statuses[tn] # "NONE"

(***************************************************************************)
(* C10: add_test, add_fixture(suite_name, fixture) with a test- or         *)
(* suite-scope fixture and get_test_suite_status fail with the             *)
(* unknown-suite error when the suite is not registered, and change        *)
(* neither the suites nor the session fixture.                             *)
(***************************************************************************)
C10_UnknownSuite ==
    [][\A sn \in SuiteNames :
            sn \notin DOMAIN m_suites =>
                \A tn \in TestNames, f \in TestFixtures \cup SuiteFixtures :
                    (\/ add_test(sn, tn)
                     \/ add_fixture_to_suite(sn, f)
                     \/ get_test_suite_status(sn)) =>
                        /\ result' = "UnknownSuite"
                        /\ m_suites' = m_suites
                        /\ m_session_fixture' = m_session_fixture]_vars

\* the call was refused while another suite with a test was registered
C10_Witness ==
    /\ result = "UnknownSuite"
    /\ \E sn \in DOMAIN m_suites : DOMAIN m_suites[sn].m_tests # {}
    /\ DOMAIN m_suites # SuiteNames

(***************************************************************************)
(* C11: add_fixture(fixture) with a fixture whose scope is not Session,    *)
(* and add_fixture(suite_name, fixture) with a Session-scope fixture       *)
(* (whether the suite exists or not), fail with the invalid-scope error    *)
(* and leave the session's fixture slot and every suite and test as they   *)
(* were.                                                                   *)
(***************************************************************************)
C11_InvalidScope ==
    [][/\ \A f \in Fixtures :
            (add_fixture(f) /\ f.scope # "Session") =>
                /\ result' = "InvalidScope"
                /\ m_suites' = m_suites
                /\ m_session_fixture' = m_session_fixture
       /\ \A sn \in SuiteNames, f \in Fixtures :
            (add_fixture_to_suite(sn, f) /\ f.scope = "Session") =>
                /\ result' = "InvalidScope"
                /\ m_suites' = m_suites
                /\ m_session_fixture' = m_session_fixture]_vars

\* the call was refused while a session fixture and a test holding fixtures
\* were registered, and a suite name was still free
C11_Witness ==
    /\ result = "InvalidScope"
    /\ IsSet(m_session_fixture)
    /\ DOMAIN m_suites # SuiteNames
    /\ \E sn \in DOMAIN m_suites : \E tn \in DOMAIN m_suites[sn].m_tests :
            IsSet(m_suites[sn].m_tests[tn].m_session_fixture)

(***************************************************************************)
(* C12: a suite added when the session already has a session fixture holds *)
(* that fixture when add_test_suite returns; every test of such a suite    *)
(* is attached to a session fixture carrying the same args, and its body   *)
(* receives those args as session_args.                                    *)
(***************************************************************************)
\* the suites added after the session fixture was registered
SuitesAfterSessionFixture ==
    IF IsSet(m_session_fixture) THEN DOMAIN m_suites \ hist.before ELSE {}

C12_NewSuiteStep ==
    \A name \in SuiteNames :
        (add_test_suite(name) /\ name \notin DOMAIN m_suites
                /\ IsSet(m_session_fixture)) =>
            /\ name \in DOMAIN m_suites'
            /\ m_suites'[name].m_session_fixture = m_session_fixture

C12_TestsAttached ==
    \A sn \in SuitesAfterSessionFixture :
        /\ IsSet(m_suites[sn].m_session_fixture)
        /\ \A t \in TestsOf(m_suites[sn]) :
            LET test == IF t[1] = "test" THEN m_suites[sn].m_tests[t[2]]
                        ELSE m_suites[sn].m_param_tests[t[2]]
            IN  /\ IsSet(test.m_session_fixture)
                /\ test.m_session_fixture.args = m_session_fixture.args
        /\ \A b \in Bodies :
            log[b].site.suite = sn => log[b].args[3] = m_session_fixture.args

C12_SessionFixtureFirst == []C12_TestsAttached /\ [][C12_NewSuiteStep]_vars

\* a run returned in which a regular and a parameterized test of such a
\* suite ran
C12_Witness ==
    /\ RunReturned
    /\ \E sn \in SuitesAfterSessionFixture :
        \E b, c \in Bodies :
            /\ log[b].site.suite = sn /\ log[b].kind = "test"
            /\ log[c].site.suite = sn /\ log[c].kind = "param"

(***************************************************************************)
(* C13: get_statuses maps every regular test name to the status of the     *)
(* Test stored under it, and every parameterized test name to FAIL if one  *)
(* of its indices has the recorded status FAIL, else to PASS if one has    *)
(* the recorded status PASS, else to NONE.  Read between the calls on the  *)
(* session.                                                                *)
(***************************************************************************)
RecordedStatuses(pt) == {pt.m_status_map[i] : i \in DOMAIN pt.m_status_map}

ParamRunReturned(sn, n) ==
    LET pt == m_suites[sn].m_param_tests[n]
    IN  /\ \A k \in 1..Len(pt.m_parameters) :
                \E b \in BodiesOf(sn, <<"param", n>>) : log[b].site.k = k
        /\ ~(/\ pc \in {"ptest_setup", "ptest_body", "ptest_teardown",
                       "ptest_catch"}
             /\ cur.suite = sn
             /\ cur.test = n)
        /\ ~(/\ pc = "idle"
             /\ result # "returned"
             /\ log # <<>>
             /\ log[Len(log)].site.suite = sn
             /\ log[Len(log)].site.test = n)

\* the last body invocation of the test n of the suite sn for the index i
LastBodyFor(sn, n, i) ==
    SetMax({b \in BodiesOf(sn, <<"param", n>>) : log[b].idx = i})

(***************************************************************************)
(* C14: when ParameterizedTest::run has returned, get_status(i) of every   *)
(* index i of the list is PASS if the body invocation for i (the last one, *)
(* when i occurs more than once) failed no assertion, and FAIL otherwise,  *)
(* whatever the invocations for other indices did.                         *)
(***************************************************************************)
C14_ParamStatusPerIndex ==
    \A sn \in DOMAIN m_suites :
        \A n \in DOMAIN m_suites[sn].m_param_tests :
            LET pt == m_suites[sn].m_param_tests[n]
            IN  ParamRunReturned(sn, n) =>
                    \A k \in 1..Len(pt.m_parameters) :
                        PT_get_status(pt, pt.m_parameters[k]) =
                            IF log[LastBodyFor(sn, n, pt.m_parameters[k])].failed
                                    = 0
                            THEN "PASS" ELSE "FAIL"

\* an index passed after the index before it had failed
C14_Witness ==
    \E sn \in DOMAIN m_suites :
        \E n \in DOMAIN m_suites[sn].m_param_tests :
            LET pt == m_suites[sn].m_param_tests[n]
            IN  /\ ParamRunReturned(sn, n)
                /\ \E k \in 2..Len(pt.m_parameters) :
                    /\ PT_get_status(pt, pt.m_parameters[k]) = "PASS"
                    /\ PT_get_status(pt, pt.m_parameters[k - 1]) = "FAIL"

(***************************************************************************)
(* C15: when the body of a parameterized test has thrown for the k-th      *)
(* entry of its list, the test fixture's teardown has run for that entry,  *)
(* the body's failure has left the run, nothing was called for a later     *)
(* entry, and get_status is NONE for every index that occurs only after    *)
(* position k.                                                             *)
(***************************************************************************)
C15_ParamBodyFailureStopsLoop ==
    (pc = "idle" /\ Bodies # {} /\ lastBody.raised
            /\ log[SetMax(Bodies)].kind = "param") =>
        LET b == SetMax(Bodies)
            e == log[b]
            pt == m_suites[e.site.suite].m_param_tests[e.site.test]
            later == {pt.m_parameters[j] : j \in (e.site.k + 1)..Len(pt.m_parameters)}
            sofar == {pt.m_parameters[j] : j \in 1..e.site.k}
        IN  /\ IsSet(pt.m_test_fixture) =>
                    /\ Len(log) = b + 1
                    /\ IsTestFixtureCall(b + 1, "teardown", e.site)
            /\ ~IsSet(pt.m_test_fixture) => Len(log) = b
            /\ result = "BodyFailure"
            /\ \A i \in later \ sofar : PT_get_status(pt, i) = "NONE"

(***************************************************************************)
(* C16: m_status_map of a parameterized test has an entry for an index     *)
(* only if an iteration for that index went through setup, body and        *)
(* teardown without a failure leaving the loop; an index whose only        *)
(* iteration ended with a failure leaving the loop has no entry.  Read     *)
(* between the calls on the session, while the log of the first run is     *)
(* there.                                                                  *)
(***************************************************************************)
\* the iteration that made the body call log[b] ended with a failure that
\* left ParameterizedTest::run
IterationAborted(b) ==
    /\ pc = "idle"
    /\ result \in {"BodyFailure", "TeardownFailure"}
    /\ log[Len(log)].site = log[b].site

C16_EntryStep ==
    \A sn \in DOMAIN m_suites' :
        \A n \in DOMAIN m_suites'[sn].m_param_tests :
            LET new == m_suites'[sn].m_param_tests[n].m_status_map
            IN  IF sn \in DOMAIN m_suites
                        /\ n \in DOMAIN m_suites[sn].m_param_tests
                THEN LET old == m_suites[sn].m_param_tests[n].m_status_map
                     IN  \A i \in DOMAIN new :
                            (i \notin DOMAIN old \/ old[i] # new[i]) =>
                                /\ cur.suite = sn /\ cur.test = n
                                /\ i = CurIdx
                                /\ \/ pc = "ptest_body"
                                   \/ /\ pc = "ptest_catch"
                                      /\ new[i] = "FAIL"
                                      /\ \E b \in Bodies : log[b].site = cur
                ELSE DOMAIN new = {}

c_get_test_suite_status(sn) ==
    LET statuses == TestSuite_get_statuses(m_suites[sn])
    IN  IF \E n \in DOMAIN statuses : statuses[n] = "FAIL" THEN 1 ELSE 0

\* a test of the suite has failed: a Test whose status is FAIL, or a
\* parameterized test with an index recorded as FAIL
SomeTestFailed(sn) ==
    \/ \E n \in DOMAIN m_suites[sn].m_tests :
            m_suites[sn].m_tests[n].m_status = "FAIL"
    \/ \E n \in DOMAIN m_suites[sn].m_param_tests :
            "FAIL" \in RecordedStatuses(m_suites[sn].m_param_tests[n])

(***************************************************************************)
(* C17: the status code of a suite is non-zero exactly when a test of the  *)
(* suite, regular or parameterized, has failed.  Read between the calls on *)
(* the session.                                                            *)
(***************************************************************************)
C17_SuiteStatusCode ==
    pc = "idle" =>
        \A sn \in DOMAIN m_suites :
            (c_get_test_suite_status(sn) # 0) <=> SomeTestFailed(sn)

\* test_session_t%get_status: the sum of the suites' status codes
RECURSIVE SumOfStatus(_)
SumOfStatus(suites) ==
    IF suites = {} THEN 0
    ELSE LET sn == FirstKey(suites)
         IN  c_get_test_suite_status(sn) + SumOfStatus(suites \ {sn})

get_status == SumOfStatus(DOMAIN m_suites)

(***************************************************************************)
(* C18: after a run that returned, the session's aggregate status is 0     *)
(* when every registered test passed in that run, and non-zero when a      *)
(* registered test of any suite failed in it.                              *)
(***************************************************************************)
C18_AggregateStatus ==
    RunReturned =>
        /\ (\A b \in Bodies : log[b].failed = 0) => get_status = 0
        /\ (\E b \in Bodies : log[b].failed > 0) => get_status # 0

(***************************************************************************)
(* The Assert object on its own: any sequence of calls of its primitives   *)
(* and of reset, with the values and tolerances a caller passes            *)
(***************************************************************************)
AssertValues == {-2, 0, 1, 2}
AbsTolerances == {0, 1}
RelTolerances == {0, 50}

\* an Assert primitive returns with the counters c
AssertReturns(c) ==
    /\ pc = "idle"
    /\ nAsserts < MaxAsserts
    /\ m_num_passed' = c[1]
    /\ m_num_failed' = c[2]
    /\ nAsserts' = nAsserts + 1
    /\ UNCHANGED <<m_suites, m_session_fixture, pc, cur, exc, result, log,
                   lastBody, hist, nRegs, nRuns>>

call_assert_equal ==
    \E e \in AssertValues, a \in AssertValues, at \in AbsTolerances,
            rt \in RelTolerances, fl \in BOOLEAN :
        AssertReturns(Assert_assert_equal(<<m_num_passed, m_num_failed>>,
                                          e, a, at, rt, fl))

call_assert_not_equal ==
    \E e \in AssertValues, a \in AssertValues, at \in AbsTolerances,
            rt \in RelTolerances, fl \in BOOLEAN :
        AssertReturns(Assert_assert_not_equal(<<m_num_passed, m_num_failed>>,
                                              e, a, at, rt, fl))

call_assert_true ==
    \E condition \in BOOLEAN :
        AssertReturns(Assert_assert_true(<<m_num_passed, m_num_failed>>,
                                         condition))

call_assert_false ==
    \E condition \in BOOLEAN :
        AssertReturns(Assert_assert_false(<<m_num_passed, m_num_failed>>,
                                          condition))

call_reset ==
    /\ pc = "idle"
    /\ m_num_passed' = Assert_reset(<<m_num_passed, m_num_failed>>)[1]
    /\ m_num_failed' = Assert_reset(<<m_num_passed, m_num_failed>>)[2]
    /\ nAsserts' = 0
    /\ UNCHANGED <<m_suites, m_session_fixture, pc, cur, exc, result, log,
                   lastBody, hist, nRegs, nRuns>>

NextAssert ==
    \/ call_assert_equal
    \/ call_assert_not_equal
    \/ call_assert_true
    \/ call_assert_false
    \/ call_reset

SpecAssert == Init /\ [][NextAssert]_vars

(***************************************************************************)
(* C19: every call of an Assert primitive adds 1 to exactly one of the two *)
(* counters and leaves the other as it was, and reset sets both to 0; so   *)
(* the two counters always add up to the number of calls since the last    *)
(* reset.                                                                  *)
(***************************************************************************)
C19_CallStep ==
    /\ (\/ call_assert_equal
        \/ call_assert_not_equal
        \/ call_assert_true
        \/ call_assert_false) =>
            \/ /\ m_num_passed' = m_num_passed + 1
               /\ m_num_failed' = m_num_failed
            \/ /\ m_num_passed' = m_num_passed
               /\ m_num_failed' = m_num_failed + 1
    /\ call_reset => (m_num_passed' = 0 /\ m_num_failed' = 0)

C19_CountersSum ==
    /\ [](m_num_passed + m_num_failed = nAsserts)
    /\ [][C19_CallStep]_vars

\* passing and failing calls were counted after a reset
C19_Witness ==
    /\ m_num_passed = 2
    /\ m_num_failed = 2
    /\ nAsserts = 4

(***************************************************************************)
(* A Test and a ParameterizedTest on their own: fixtures are attached to   *)
(* them directly with add_fixture, and run is called on them directly.     *)
(* The two objects are kept under fixed names in a suite that no           *)
(* TestSuite or TestSession operation touches.                             *)
(***************************************************************************)
LoneSuite == <<2>>
LoneTest == <<2>>
LoneParamTest == <<1, 1>>

\* fixtures handed to add_fixture: two of every scope, with different args
DirectFixtures ==
    Fixtures \cup {Fixture(0, 0, 2, "Test"), Fixture(0, 0, 6, "Session")}

InitTest ==
    /\ m_suites =
        (LoneSuite :>
            [NewSuite EXCEPT
                !.m_tests = (LoneTest :> NewTest),
                !.m_param_tests =
                    (LoneParamTest :> NewParameterizedTest(<<1, 0, 1>>))])
    /\ m_session_fixture = NullFixture
    /\ m_num_passed = 0
    /\ m_num_failed = 0
    /\ pc = "idle"
    /\ cur = NoCur
    /\ exc = "none"
    /\ result = "none"
    /\ log = <<>>
    /\ lastBody = [failed |-> 0, raised |-> FALSE]
    /\ hist = NoHist
    /\ nRegs = 0
    /\ nRuns = 0
    /\ nAsserts = 0

\* test.add_fixture(fixture) on the Test
Test_add_fixture_call(fixture) ==
    /\ pc = "idle"
    /\ Registers
    /\ m_suites' = [m_suites EXCEPT
            ![LoneSuite].m_tests[LoneTest] = Test_add_fixture(@, fixture)]
    /\ hist' = [hist EXCEPT !.last["test"][fixture.scope] = fixture]
    /\ UNCHANGED m_session_fixture

\* test.add_fixture(fixture) on the ParameterizedTest
ParameterizedTest_add_fixture_call(fixture) ==
    /\ pc = "idle"
    /\ Registers
    /\ m_suites' = [m_suites EXCEPT
            ![LoneSuite].m_param_tests[LoneParamTest] =
                Test_add_fixture(@, fixture)]
    /\ hist' = [hist EXCEPT !.last["param"][fixture.scope] = fixture]
    /\ UNCHANGED m_session_fixture

\* run is called on the Test (kind "test") or the ParameterizedTest
RunCalled(kind) ==
    /\ pc = "idle"
    /\ nRuns < MaxCalls
    /\ nRuns' = nRuns + 1
    /\ pc' = IF kind = "test" THEN "test_setup" ELSE "ptest_setup"
    /\ cur' = IF kind = "test" THEN At(LoneSuite, LoneTest, 0)
              ELSE At(LoneSuite, LoneParamTest, 1)
    /\ result' = "running"
    /\ log' = <<>>
    /\ UNCHANGED <<m_suites, regVars, exc, m_num_passed, m_num_failed, nAsserts,
                   lastBody>>

\* run returns to its caller: Test::run after the teardown of the try
\* block, ParameterizedTest::run after the last entry of the list
RunReturns ==
    /\ pc \in {"test_done", "suite_teardown"}
    /\ Abort("returned")
    /\ UNCHANGED <<m_suites, regVars, log, m_num_passed, m_num_failed, nAsserts,
                   lastBody, nRuns>>

NextTest ==
    \/ \E f \in DirectFixtures : Test_add_fixture_call(f)
    \/ \E f \in DirectFixtures : ParameterizedTest_add_fixture_call(f)
    \/ \E kind \in {"test", "param"} : RunCalled(kind)
    \/ TestSetup
    \/ TestBody
    \/ TestTeardown
    \/ TestCatch
    \/ PTestSetup
    \/ PTestBody
    \/ PTestTeardown
    \/ PTestCatch
    \/ RunReturns

SpecTest == InitTest /\ [][NextTest]_vars

(***************************************************************************)
(* C20: add_fixture on a Test or a ParameterizedTest replaces the slot of  *)
(* the fixture's scope and leaves the other two slots as they were; the    *)
(* body gets, for each scope, the args of the last fixture that was added  *)
(* with that scope, and null for a scope without a fixture.                *)
(***************************************************************************)
\* the three slots of a Test or ParameterizedTest, by scope
Slot(t, scope) ==
    CASE scope = "Test" -> t.m_test_fixture
      [] scope = "Suite" -> t.m_suite_fixture
      [] scope = "Session" -> t.m_session_fixture

C20_SlotStep ==
    \A f \in DirectFixtures :
        /\ Test_add_fixture_call(f) =>
            \A scope \in {"Test", "Suite", "Session"} :
                Slot(m_suites'[LoneSuite].m_tests[LoneTest], scope) =
                    IF scope = f.scope THEN f
                    ELSE Slot(m_suites[LoneSuite].m_tests[LoneTest], scope)
        /\ ParameterizedTest_add_fixture_call(f) =>
            \A scope \in {"Test", "Suite", "Session"} :
                Slot(m_suites'[LoneSuite].m_param_tests[LoneParamTest], scope) =
                    IF scope = f.scope THEN f
                    ELSE Slot(m_suites[LoneSuite].m_param_tests[LoneParamTest],
                              scope)

C20_BodyArgs ==
    \A b \in Bodies :
        log[b].args = <<get_args(hist.last[log[b].kind]["Test"]),
                        get_args(hist.last[log[b].kind]["Suite"]),
                        get_args(hist.last[log[b].kind]["Session"])>>

C20_LastFixtureWins == []C20_BodyArgs /\ [][C20_SlotStep]_vars

\* a body ran with a fixture of two scopes and none of the third, after a
\* fixture had been replaced
C20_Witness ==
    /\ pc = "idle"
    /\ result = "returned"
    /\ nRegs >= 4
    /\ \E b \in Bodies :
        /\ log[b].args[1] # 0
        /\ log[b].args[2] = 4
        /\ log[b].args[3] = 0

(***************************************************************************)
(* C21: the first fixture a TestSuite is given for a scope keeps the       *)
(* suite's own slot of that scope: an empty slot takes the fixture, a      *)
(* filled slot never changes.  So TestSuite::run calls the setup and the   *)
(* teardown of the first suite-scope fixture, and a test added later is    *)
(* attached to the first fixture of each scope.                            *)
(***************************************************************************)
Scopes == {"Test", "Suite", "Session"}

\* the suite's own slots keep their first fixture
C21_OwnSlotStep ==
    /\ \A sn \in DOMAIN m_suites \cap DOMAIN m_suites' :
        \A scope \in Scopes :
            IsSet(Slot(m_suites[sn], scope)) =>
                Slot(m_suites'[sn], scope) = Slot(m_suites[sn], scope)
    /\ \A sn \in SuiteNames, f \in TestFixtures \cup SuiteFixtures :
        (add_fixture_to_suite(sn, f) /\ sn \in DOMAIN m_suites) =>
            Slot(m_suites'[sn], f.scope) =
                IF IsSet(Slot(m_suites[sn], f.scope))
                THEN Slot(m_suites[sn], f.scope) ELSE f

\* a test that is new in the suite holds the fixtures of the suite's slots
C21_NewTestStep ==
    \A sn \in DOMAIN m_suites \cap DOMAIN m_suites' :
        /\ \A tn \in DOMAIN m_suites'[sn].m_tests \ DOMAIN m_suites[sn].m_tests :
            \A scope \in Scopes :
                Slot(m_suites'[sn].m_tests[tn], scope) =
                    Slot(m_suites[sn], scope)
        /\ \A tn \in DOMAIN m_suites'[sn].m_param_tests
                        \ DOMAIN m_suites[sn].m_param_tests :
            \A scope \in Scopes :
                Slot(m_suites'[sn].m_param_tests[tn], scope) =
                    Slot(m_suites[sn], scope)

\* the suite-fixture calls of a run are calls of the suite's own fixture
C21_RunCallsOwnFixture ==
    \A i \in FixtureCalls("setup", "Suite") \cup FixtureCalls("teardown", "Suite") :
        LET own == m_suites[log[i].site.suite].m_suite_fixture
        IN  /\ log[i].args = <<own.args>>
            /\ log[i].fn = IF log[i].ev = "setup" THEN own.setup
                           ELSE own.teardown

C21_FirstFixtureWins ==
    /\ []C21_RunCallsOwnFixture
    /\ [][C21_OwnSlotStep /\ C21_NewTestStep]_vars

\* a suite was given a second, different suite-scope fixture; a test added
\* after it ran with the args of the first
C21_Witness ==
    /\ RunReturned
    /\ \E sn \in DOMAIN hist.suite :
        /\ IsSet(m_suites[sn].m_suite_fixture)
        /\ hist.suite[sn].fixture # m_suites[sn].m_suite_fixture
        /\ \E tn \in DOMAIN m_suites[sn].m_tests :
            /\ <<"test", tn>> \notin hist.suite[sn].tests
            /\ \E b \in BodiesOf(sn, <<"test", tn>>) :
                    log[b].args[2] = m_suites[sn].m_suite_fixture.args
        /\ \E i \in FixtureCalls("setup", "Suite") : log[i].site.suite = sn

(***************************************************************************)
(* One suite of a session, given fixtures and tests in any order and then  *)
(* run.  The registrar has two test-scope fixtures with different args.    *)
(***************************************************************************)
OneSuite == {<<2>>}

RegistrarFixtures ==
    TestFixtures \cup SuiteFixtures \cup {Fixture(2, 2, 2, "Test")}

NextSuite ==
    \/ \E name \in OneSuite : add_test_suite(name)
    \/ \E sn \in OneSuite, f \in RegistrarFixtures : add_fixture_to_suite(sn, f)
    \/ \E sn \in OneSuite, tn \in TestNames : add_test(sn, tn)
    \/ \E sn \in OneSuite, tn \in ParamTestNames, ps \in ParamLists :
            register_parameterized_test(sn, tn, ps)
    \/ RunBegin
    \/ SessionSetup
    \/ SuiteInject
    \/ SuiteSetup
    \/ TestSetup
    \/ TestBody
    \/ TestTeardown
    \/ TestCatch
    \/ TestDone
    \/ PTestSetup
    \/ PTestBody
    \/ PTestTeardown
    \/ PTestCatch
    \/ SuiteTeardown
    \/ SessionTeardown

SpecSuite == Init /\ [][NextSuite]_vars

(***************************************************************************)
(* C22: a test-scope fixture given to a TestSuite that already has tests   *)
(* is attached only to the tests that have no test-scope fixture yet; a    *)
(* test that holds one keeps it.                                           *)
(***************************************************************************)
C22_FixturedTestKeeps ==
    [][\A sn \in OneSuite, f \in RegistrarFixtures :
        (add_fixture_to_suite(sn, f) /\ sn \in DOMAIN m_suites
                /\ f.scope = "Test") =>
            /\ \A tn \in DOMAIN m_suites[sn].m_tests :
                m_suites'[sn].m_tests[tn].m_test_fixture =
                    IF IsSet(m_suites[sn].m_tests[tn].m_test_fixture)
                    THEN m_suites[sn].m_tests[tn].m_test_fixture ELSE f
            /\ \A tn \in DOMAIN m_suites[sn].m_param_tests :
                m_suites'[sn].m_param_tests[tn].m_test_fixture =
                    IF IsSet(m_suites[sn].m_param_tests[tn].m_test_fixture)
                    THEN m_suites[sn].m_param_tests[tn].m_test_fixture ELSE f]_vars

(***************************************************************************)
(* C23: a failure raised by a test body during TestSession::run is caught  *)
(* neither by TestSuite::run nor by TestSession::run: the body's failure   *)
(* leaves the run, and after the body nothing is called but the teardown   *)
(* of the failing test's own fixture: no later test, no later suite, not   *)
(* the suite fixture's teardown, not the session fixture's teardown.       *)
(***************************************************************************)
C23_BodyFailureLeavesRun ==
    (Bodies # {} /\ lastBody.raised) =>
        LET b == SetMax(Bodies)
        IN  /\ pc \in {"idle", "test_catch", "ptest_catch"}
            /\ pc = "idle" => result = "BodyFailure"
            /\ \A i \in LogIdx :
                i > b => IsTestFixtureCall(i, "teardown", log[b].site)

(***************************************************************************)
(* C24: a run that is ended by a failure in the suite S leaves every       *)
(* recorded status as it was.  The step that ends the run changes no       *)
(* status that get_statuses reports, except that of the failing test; and  *)
(* after it, every regular test that completed before the failure (in S    *)
(* or in an earlier suite) is reported PASS if its body failed no          *)
(* assertion and FAIL otherwise, and every parameterized test that         *)
(* completed is reported FAIL if the last invocation of one of its indices *)
(* failed an assertion and PASS otherwise.                                 *)
(***************************************************************************)
RunAborted ==
    /\ pc = "idle"
    /\ log # <<>>
    /\ result \in {"SetupFailure", "TeardownFailure", "BodyFailure",
                   "DbFailure"}

\* the body invocations that another body invocation followed
EarlierBodies == {b \in Bodies : \E c \in Bodies : b < c}

C24_AbortStep ==
    (pc # "idle" /\ pc' = "idle" /\ result' # "returned") =>
        \A sn \in DOMAIN m_suites :
            LET old == TestSuite_get_statuses(m_suites[sn])
                new == TestSuite_get_statuses(m_suites'[sn])
            IN  /\ DOMAIN new = DOMAIN old
                /\ \A n \in DOMAIN old :
                    (sn # cur.suite \/ n # cur.test) => new[n] = old[n]

C24_Recorded ==
    RunAborted =>
        /\ \A b \in EarlierBodies :
            log[b].kind = "test" =>
                TestSuite_get_statuses(m_suites[log[b].site.suite])
                        [log[b].site.test] =
                    IF log[b].failed = 0 THEN "PASS" ELSE "FAIL"
        /\ \A sn \in DOMAIN m_suites :
            \A n \in DOMAIN m_suites[sn].m_param_tests :
                LET pt == m_suites[sn].m_param_tests[n]
                IN  ParamRunReturned(sn, n) =>
                        TestSuite_get_statuses(m_suites[sn])[n] =
                            IF \E k \in 1..Len(pt.m_parameters) :
                                log[LastBodyFor(sn, n, pt.m_parameters[k])]
                                    .failed > 0
                            THEN "FAIL" ELSE "PASS"

C24_PartialResultsKept == []C24_Recorded /\ [][C24_AbortStep]_vars

\* the run was ended by a body of the second suite, after a test of the
\* first suite had failed an assertion and a test of the second had passed
C24_Witness ==
    /\ RunAborted
    /\ result = "BodyFailure"
    /\ \E b, c \in EarlierBodies :
        /\ log[b].site.suite # log[SetMax(Bodies)].site.suite
        /\ log[b].failed > 0
        /\ TestSuite_get_statuses(m_suites[log[b].site.suite])
                [log[b].site.test] = "FAIL"
        /\ log[c].site.suite = log[SetMax(Bodies)].site.suite
        /\ log[c].kind = "test"
        /\ TestSuite_get_statuses(m_suites[log[c].site.suite])
                [log[c].site.test] = "PASS"

(***************************************************************************)
(* C25: a failure raised by the setup or the teardown of a fixture leaves  *)
(* Test::run as it is.  When the test fixture's setup raises, Test::run    *)
(* ends at once with the setup's failure: the body and the teardown are    *)
(* not called, the assertion counters are not reset, and the status of the *)
(* test is the one it had before the call.  A failure of the teardown      *)
(* leaves Test::run as the teardown's failure.                             *)
(***************************************************************************)
C25_SetupStep ==
    pc = "test_setup" =>
        /\ pc' \in {"test_body", "idle"}
        /\ pc' = "idle" =>
            /\ result' = "SetupFailure"
            /\ Len(log') = Len(log) + 1
            /\ log'[Len(log')].ev = "setup"
            /\ log'[Len(log')].scope = "Test"
            /\ log'[Len(log')].site = cur
            /\ m_suites' = m_suites
            /\ m_num_passed' = m_num_passed
            /\ m_num_failed' = m_num_failed

C25_TeardownStep ==
    /\ (pc = "test_teardown" /\ pc' # "test_done") =>
            pc' = "test_catch" /\ exc' = "TeardownFailure"
    /\ (pc = "test_catch" /\ pc' = "idle") =>
            /\ result' \in {exc, "TeardownFailure"}
            /\ exc = "TeardownFailure" => result' = "TeardownFailure"
            /\ result' # exc =>
                /\ Len(log') = Len(log) + 1
                /\ log'[Len(log')].ev = "teardown"
                /\ log'[Len(log')].scope = "Test"
                /\ log'[Len(log')].site = cur

C25_FixtureFailurePropagates == [][C25_SetupStep /\ C25_TeardownStep]_vars

\* the setup raised in the second call of run, when the test had the status
\* FAIL and the counters held the first call's assertions
C25_Witness ==
    /\ pc = "idle"
    /\ result = "SetupFailure"
    /\ nRuns = 2
    /\ m_suites[LoneSuite].m_tests[LoneTest].m_status = "FAIL"
    /\ m_num_failed > 0
    /\ Len(log) = 1
    /\ log[1].kind = "fixture"
    /\ log[1].site.test = LoneTest
    /\ log[1].site.k = 0

(***************************************************************************)
(* C26: when ParameterizedTest::run has returned, the body has been        *)
(* invoked once for every entry of the parameter list, in stored order,    *)
(* duplicates included; and if one of these invocations failed an          *)
(* assertion, the status get_statuses reports for the parameterized test   *)
(* is FAIL.                                                                *)
(***************************************************************************)
C26_EveryInvocationCounts ==
    \A sn \in DOMAIN m_suites :
        \A n \in DOMAIN m_suites[sn].m_param_tests :
            LET pt == m_suites[sn].m_param_tests[n]
                bodies == BodiesOf(sn, <<"param", n>>)
            IN  ParamRunReturned(sn, n) =>
                    /\ Cardinality(bodies) = Len(pt.m_parameters)
                    /\ \A b \in bodies :
                            log[b].idx = pt.m_parameters[log[b].site.k]
                    /\ \A b, c \in bodies :
                            b < c => log[b].site.k < log[c].site.k
                    /\ (\E b \in bodies : log[b].failed > 0) =>
                            TestSuite_get_statuses(m_suites[sn])[n] = "FAIL"

(***************************************************************************)
(* C27: every test of a suite is attached to the suite's own suite-scope   *)
(* fixture: between the calls on the session each Test and                 *)
(* ParameterizedTest holds the fixture of the suite's suite slot, and in a *)
(* run every body gets as suite_args the args of the fixture whose setup   *)
(* and teardown TestSuite::run calls.                                      *)
(***************************************************************************)
C27_TestsHoldSuiteFixture ==
    /\ pc = "idle" =>
        \A sn \in DOMAIN m_suites :
            /\ \A tn \in DOMAIN m_suites[sn].m_tests :
                m_suites[sn].m_tests[tn].m_suite_fixture =
                    m_suites[sn].m_suite_fixture
            /\ \A tn \in DOMAIN m_suites[sn].m_param_tests :
                m_suites[sn].m_param_tests[tn].m_suite_fixture =
                    m_suites[sn].m_suite_fixture
    /\ \A b \in Bodies :
        log[b].args[2] = get_args(m_suites[log[b].site.suite].m_suite_fixture)

(***************************************************************************)
(* C28: between the calls on the session, whatever registrations           *)
(* (re-registration of a test name included) and runs (returned or ended   *)
(* by a failure) came before, get_statuses reports for every regular test  *)
(* name the status held by the Test stored under that name.                *)
(***************************************************************************)
C28_StatusesAgreeWithTests ==
    pc = "idle" =>
        \A sn \in DOMAIN m_suites :
            \A tn \in DOMAIN m_suites[sn].m_tests :
                /\ tn \in DOMAIN TestSuite_get_statuses(m_suites[sn])
                /\ TestSuite_get_statuses(m_suites[sn])[tn] =
                        m_suites[sn].m_tests[tn].m_status

(***************************************************************************)
(* A session whose fixture is registered more than once and that is run    *)
(* more than once: one suite, two session fixtures with different args.    *)
(***************************************************************************)
SessionFixturePool == SessionFixtures \cup {Fixture(0, 0, 6, "Session")}

\* run() is called again
RunBeginAgain ==
    /\ pc = "idle"
    /\ nRuns >= MaxRuns
    /\ nRuns < MaxCalls
    /\ nRuns' = nRuns + 1
    /\ pc' = "session_setup"
    /\ cur' = NoCur
    /\ result' = "running"
    /\ log' = <<>>
    /\ UNCHANGED <<m_suites, regVars, exc, m_num_passed, m_num_failed, nAsserts,
                   lastBody>>

NextSession ==
    \/ \E name \in OneSuite : add_test_suite(name)
    \/ \E f \in SessionFixturePool : add_fixture(f)
    \/ \E sn \in OneSuite, tn \in TestNames : add_test(sn, tn)
    \/ \E sn \in OneSuite, tn \in ParamTestNames, ps \in ParamLists :
            register_parameterized_test(sn, tn, ps)
    \/ RunBegin
    \/ RunBeginAgain
    \/ SessionSetup
    \/ SuiteInject
    \/ SuiteSetup
    \/ TestSetup
    \/ TestBody
    \/ TestTeardown
    \/ TestCatch
    \/ TestDone
    \/ PTestSetup
    \/ PTestBody
    \/ PTestTeardown
    \/ PTestCatch
    \/ SuiteTeardown
    \/ SessionTeardown

SpecSession == Init /\ [][NextSession]_vars

(***************************************************************************)
(* C29: in every run, every body gets as session_args the args of the      *)
(* session's current session fixture, the one registered last and set up   *)
(* by this run, and null when the session has none; whenever the test or   *)
(* its suite was registered, however often the session fixture was         *)
(* registered, and whatever runs came before.                              *)
(***************************************************************************)
C29_SessionArgsCurrent ==
    /\ \A b \in Bodies : log[b].args[3] = get_args(m_session_fixture)
    /\ \A i \in FixtureCalls("setup", "Session") :
        /\ IsSet(m_session_fixture)
        /\ log[i].args = <<m_session_fixture.args>>
        /\ log[i].fn = m_session_fixture.setup

\* a second run, after the session fixture was replaced: the suite's own
\* slot still holds the args of the first fixture
C29_Witness ==
    /\ RunReturned
    /\ nRuns = 2
    /\ m_session_fixture = Fixture(0, 0, 6, "Session")
    /\ \E sn \in DOMAIN m_suites :
        /\ m_suites[sn].m_session_fixture.args = 5
        /\ \E b \in Bodies : log[b].site.suite = sn /\ log[b].args[3] = 6

(***************************************************************************)
(* C30: assertions made in the setup or the teardown of a fixture of any   *)
(* scope change no test's status.  A step that calls a setup, or a         *)
(* teardown outside an exception handler, leaves every Test, every         *)
(* ParameterizedTest and every recorded status as it was; and when the run *)
(* has returned, each regular test is PASS exactly if its own body failed  *)
(* no assertion, and each parameter index is PASS exactly if the last body *)
(* invocation for it failed none.                                          *)
(***************************************************************************)
C30_FixtureStep ==
    pc \in {"session_setup", "suite_setup", "test_setup", "test_teardown",
            "ptest_setup", "ptest_teardown", "suite_teardown",
            "session_teardown"} =>
        m_suites' = m_suites

C30_BodyDecides ==
    RunReturned =>
        /\ \A b \in Bodies :
            log[b].kind = "test" =>
                m_suites[log[b].site.suite].m_tests[log[b].site.test].m_status =
                    IF log[b].failed = 0 THEN "PASS" ELSE "FAIL"
        /\ \A b \in Bodies :
            log[b].kind = "param" =>
                LET sn == log[b].site.suite
                    n == log[b].site.test
                IN  PT_get_status(m_suites[sn].m_param_tests[n], log[b].idx) =
                        IF log[LastBodyFor(sn, n, log[b].idx)].failed = 0
                        THEN "PASS" ELSE "FAIL"

C30_FixtureAssertionsIgnored == []C30_BodyDecides /\ [][C30_FixtureStep]_vars

\* every test passed although the teardowns after the last body failed two
\* assertions, and a test fixture was set up around a body
C30_Witness ==
    /\ RunReturned
    /\ m_num_failed >= 2
    /\ FixturedBodies # {}
    /\ \A b \in Bodies : log[b].failed = 0
    /\ \A sn \in DOMAIN m_suites :
        \A tn \in DOMAIN m_suites[sn].m_tests :
            m_suites[sn].m_tests[tn].m_status = "PASS"

====
